---------------------------- MODULE Spec2Model ----------------------------
(***************************************************************************)
(* Invoice Visual Analyzer (src/main.py): the rule-based field extraction  *)
(* (extract_date, extract_total), the first preprocessing stages, the      *)
(* JSON store (load_saved_data, save_invoice_data) and the /analyze        *)
(* handler.                                                                *)
(*                                                                         *)
(* A text is a sequence of tokens.  A token is one character (a digit, a   *)
(* separator, "$", a blank) or one whole word of letters, so that the      *)
(* concatenation of the tokens is the string the code sees.  The regular   *)
(* expressions of the source are kept as data (sequences of items) and     *)
(* run by a backtracking matcher with the priorities of Python's re.       *)
(***************************************************************************)
EXTENDS Integers, Sequences, FiniteSets, TLC

VARIABLES
    text,       \* extraction: the OCR text handed to extract_date / extract_total
    dateOut,    \* extraction: what extract_date returned ("unset" before the call)
    totalOut,   \* extraction: what extract_total returned ("unset" before the call)
    img,        \* preprocessing: the image and the parameters of one preprocess_image call
    stage,      \* preprocessing: the stages run so far, in order
    file,       \* store: data/invoices.json, [exists, content]
    env,        \* store: [readable, writable, serialized] of the run
    call,       \* store: per caller, the position in save_invoice_data and its locals
    hist,       \* store: [initial, appended, calls] the record of what was saved
    got,        \* store: the outcome of the last GET /invoices
    req         \* /analyze: the request being handled

vars == <<text, dateOut, totalOut, img, stage, file, env, call, hist, got, req>>

-----------------------------------------------------------------------------
(* Tokens *)

Digits == {"0", "1", "2", "3", "4", "5", "6", "7", "8", "9"}

DigitVal(d) ==
    CASE d = "0" -> 0 [] d = "1" -> 1 [] d = "2" -> 2 [] d = "3" -> 3
      [] d = "4" -> 4 [] d = "5" -> 5 [] d = "6" -> 6 [] d = "7" -> 7
      [] d = "8" -> 8 [] d = "9" -> 9

\* \s of the re module: blank and line break
Blanks == {" ", "\n"}

\* the month alternatives of extract_date
MonthNames ==
    {"january", "february", "march", "april", "may", "june", "july",
     "august", "september", "october", "november", "december"}

\* lower-case words: the words of the keyword patterns, the months, any other word
LowerWords ==
    MonthNames \cup {"total", "sub", "grand", "amount", "due", "balance", "invoice", "x"}

\* str.lower on the words that occur with capitals in the inputs
LowerOf ==
    ("TOTAL" :> "total") @@ ("Total" :> "total") @@ ("Sub" :> "sub")
      @@ ("Grand" :> "grand") @@ ("Amount" :> "amount") @@ ("Due" :> "due")
      @@ ("Balance" :> "balance") @@ ("Invoice" :> "invoice")
      @@ ("MARCH" :> "march") @@ ("March" :> "march") @@ ("May" :> "may")
      @@ ("X" :> "x")

\* the capitalised form str.title gives a lower-case word
CapOf ==
    ("total" :> "Total") @@ ("sub" :> "Sub") @@ ("grand" :> "Grand")
      @@ ("amount" :> "Amount") @@ ("due" :> "Due") @@ ("balance" :> "Balance")
      @@ ("invoice" :> "Invoice") @@ ("x" :> "X")
      @@ ("january" :> "January") @@ ("february" :> "February")
      @@ ("march" :> "March") @@ ("april" :> "April") @@ ("may" :> "May")
      @@ ("june" :> "June") @@ ("july" :> "July") @@ ("august" :> "August")
      @@ ("september" :> "September") @@ ("october" :> "October")
      @@ ("november" :> "November") @@ ("december" :> "December")

Words == LowerWords \cup DOMAIN LowerOf

Punct == {".", "/", "-", ",", "$", ":"}

Tokens == Digits \cup Blanks \cup Punct \cup Words

\* \w of the re module: letters and digits
IsWordTok(tok) == tok \in Digits \cup Words

LowerTok(tok) == IF tok \in DOMAIN LowerOf THEN LowerOf[tok] ELSE tok

LowerText(t) == [i \in 1..Len(t) |-> LowerTok(t[i])]

\* str.replace(",", ".")
CommaToPeriod(t) == [i \in 1..Len(t) |-> IF t[i] = "," THEN "." ELSE t[i]]

\* str.title: a word is capitalised where it starts a run of letters
TitleText(t) ==
    [i \in 1..Len(t) |->
        IF t[i] \in LowerWords /\ (i = 1 \/ t[i - 1] \notin Words)
        THEN CapOf[t[i]] ELSE t[i]]

-----------------------------------------------------------------------------
(* Regular expressions as data, and the matcher of re.search.              *)
(* An item is a class of tokens with a repetition (greedy), a word         *)
(* boundary, the opening of group 1, or an optional group (greedy).        *)

One(S)        == [k |-> "rep", s |-> S, lo |-> 1, hi |-> 1]
Rep(S, lo, hi) == [k |-> "rep", s |-> S, lo |-> lo, hi |-> hi]
Many(S, lo)   == [k |-> "many", s |-> S, lo |-> lo]
Bound         == [k |-> "b"]
Open          == [k |-> "open"]
Maybe(body)   == [k |-> "opt", body |-> body]

NoMatch == <<0, 0>>

\* \b at the place before token pos
AtBoundary(t, pos) ==
    LET before == pos > 1 /\ IsWordTok(t[pos - 1])
        after  == pos <= Len(t) /\ IsWordTok(t[pos])
    IN  before # after

\* how many tokens from pos on are in S
RECURSIVE RunLen(_, _, _)
RunLen(t, pos, S) ==
    IF pos <= Len(t) /\ t[pos] \in S THEN 1 + RunLen(t, pos + 1, S) ELSE 0

Min2(a, b) == IF a < b THEN a ELSE b

\* the match of items[k..] at pos: <<start of group 1, place after the match>>,
\* the first in the matcher's order (longest repetition first, backtracking)
RECURSIVE MatchHere(_, _, _, _, _), RepTry(_, _, _, _, _, _)
MatchHere(items, t, k, pos, g) ==
    IF k > Len(items) THEN <<g, pos>>
    ELSE LET it == items[k] IN
        CASE it.k = "b" ->
                IF AtBoundary(t, pos) THEN MatchHere(items, t, k + 1, pos, g) ELSE NoMatch
          [] it.k = "open" -> MatchHere(items, t, k + 1, pos, pos)
          [] it.k = "opt" ->
                LET with == MatchHere(it.body \o SubSeq(items, k + 1, Len(items)), t, 1, pos, g)
                IN  IF with # NoMatch THEN with ELSE MatchHere(items, t, k + 1, pos, g)
          [] it.k = "rep" ->
                RepTry(items, t, k, pos, g, Min2(RunLen(t, pos, it.s), it.hi))
          [] it.k = "many" ->
                RepTry(items, t, k, pos, g, RunLen(t, pos, it.s))

RepTry(items, t, k, pos, g, n) ==
    IF n < items[k].lo THEN NoMatch
    ELSE LET r == MatchHere(items, t, k + 1, pos + n, g)
         IN  IF r # NoMatch THEN r ELSE RepTry(items, t, k, pos, g, n - 1)

\* re.search from place `from` on: <<start, start of group 1, place after>> of the
\* leftmost match, or <<0, 0, 0>>
RECURSIVE Search(_, _, _)
Search(items, t, from) ==
    IF from > Len(t) + 1 THEN <<0, 0, 0>>
    ELSE LET r == MatchHere(items, t, 1, from, from)
         IN  IF r # NoMatch THEN <<from, r[1], r[2]>> ELSE Search(items, t, from + 1)

Found(m) == m[1] # 0

\* match.group() and match.group(1)
Group0(t, m) == SubSeq(t, m[1], m[3] - 1)
Group1(t, m) == SubSeq(t, m[2], m[3] - 1)

None == <<"None">>

\* a result not computed yet
Unset == <<"unset">>

-----------------------------------------------------------------------------
(* extract_date *)

DateSeps == {".", "/", "-"}

\* r'\d{1,2}[./-]\d{1,2}[./-]\d{2,4}'
NumericDateRegex ==
    <<Rep(Digits, 1, 2), One(DateSeps), Rep(Digits, 1, 2), One(DateSeps), Rep(Digits, 2, 4)>>

\* rf'({month_names})\s+\d{{1,2}}(,\s*\d{{4}})?'
TextualDateRegex ==
    <<One(MonthNames), Many(Blanks, 1), Rep(Digits, 1, 2),
      Maybe(<<One({","}), Many(Blanks, 0), Rep(Digits, 4, 4)>>)>>

\* extract_date with the month-name search tried before the numeric one
extract_date_textual_first(t) ==
    LET numeric == Search(NumericDateRegex, t, 1)
        text_lower == LowerText(t)
        textual == Search(TextualDateRegex, text_lower, 1)
    IN  IF Found(textual) THEN TitleText(Group0(text_lower, textual))
        ELSE IF Found(numeric) THEN Group0(t, numeric)
        ELSE None

extract_date(t) ==
    LET numeric == Search(NumericDateRegex, t, 1)
        text_lower == LowerText(t)
        textual == Search(TextualDateRegex, text_lower, 1)
    IN  IF Found(numeric) THEN Group0(t, numeric)
        ELSE IF Found(textual) THEN TitleText(Group0(text_lower, textual))
        ELSE None

-----------------------------------------------------------------------------
(* extract_total *)

\* [^0-9$]
NotDigitNorDollar == Tokens \ (Digits \cup {"$"})

\* the number pattern with a fraction of one or two digits
NumberAfterLooseFraction ==
    <<Many(NotDigitNorDollar, 0), Rep({"$"}, 0, 1), Many(Blanks, 0),
      Open, Many(Digits, 1), Maybe(<<One({"."}), Rep(Digits, 1, 2)>>)>>

\* [^0-9$]*\$?\s*([0-9]+(\.[0-9]{2})?)
NumberAfter ==
    <<Many(NotDigitNorDollar, 0), Rep({"$"}, 0, 1), Many(Blanks, 0),
      Open, Many(Digits, 1), Maybe(<<One({"."}), Rep(Digits, 2, 2)>>)>>

\* the keyword patterns, in the order of the list total_patterns
total_patterns ==
    << <<Bound, One({"total"}), Bound>>,
       <<Bound, One({"grand"}), Many(Blanks, 1), One({"total"}), Bound>>,
       <<Bound, One({"amount"}), Many(Blanks, 1), One({"due"}), Bound>>,
       <<Bound, One({"balance"}), Many(Blanks, 1), One({"due"}), Bound>>,
       <<Bound, One({"invoice"}), Many(Blanks, 1), One({"total"}), Bound>> >>

\* r'\bsubtotal\b' (the word subtotal is the tokens sub, total with nothing
\* between them) and r'\bsub\s+total\b'
subtotal_patterns ==
    << <<Bound, One({"sub"}), One({"total"}), Bound>>,
       <<Bound, One({"sub"}), Many(Blanks, 1), One({"total"}), Bound>> >>

\* r'\$?\s*([0-9]+\.[0-9]{2})'
DecimalRegex ==
    <<Rep({"$"}, 0, 1), Many(Blanks, 0), Open, Many(Digits, 1), One({"."}), Rep(Digits, 2, 2)>>

\* the for loop over a pattern list: group 1 of the first pattern that matches
RECURSIVE FirstKeywordMatch(_, _, _)
FirstKeywordMatch(patterns, t, i) ==
    IF i > Len(patterns) THEN None
    ELSE LET m == Search(patterns[i] \o NumberAfter, t, 1)
         IN  IF Found(m) THEN Group1(t, m) ELSE FirstKeywordMatch(patterns, t, i + 1)

\* re.findall: group 1 of the successive matches, left to right, not overlapping
RECURSIVE FindAll(_, _, _)
FindAll(items, t, from) ==
    LET m == Search(items, t, from)
    IN  IF ~Found(m) THEN <<>>
        ELSE <<Group1(t, m)>> \o FindAll(items, t, IF m[3] > m[1] THEN m[3] ELSE m[3] + 1)

\* the value of a run of digits
RECURSIVE DigitsVal(_)
DigitsVal(ds) ==
    IF ds = <<>> THEN 0
    ELSE 10 * DigitsVal(SubSeq(ds, 1, Len(ds) - 1)) + DigitVal(ds[Len(ds)])

\* float(x) of a string digits.DD, in hundredths
FloatCents(x) ==
    100 * DigitsVal(SubSeq(x, 1, Len(x) - 3)) + DigitsVal(SubSeq(x, Len(x) - 1, Len(x)))

\* max(numbers, key=...): the first of the greatest
RECURSIVE MaxByFloat(_)
MaxByFloat(numbers) ==
    IF Len(numbers) = 1 THEN numbers[1]
    ELSE LET rest == MaxByFloat(Tail(numbers))
         IN  IF FloatCents(rest) > FloatCents(numbers[1]) THEN rest ELSE numbers[1]

\* extract_total with the subtotal patterns tried before the total patterns
extract_total_subtotal_first(t0) ==
    LET t == CommaToPeriod(LowerText(t0))
        byTotal == FirstKeywordMatch(total_patterns, t, 1)
        bySubtotal == FirstKeywordMatch(subtotal_patterns, t, 1)
        numbers == FindAll(DecimalRegex, t, 1)
    IN  IF bySubtotal # None THEN bySubtotal
        ELSE IF byTotal # None THEN byTotal
        ELSE IF numbers # <<>> THEN MaxByFloat(numbers)
        ELSE None

extract_total(t0) ==
    LET t == CommaToPeriod(LowerText(t0))
        byTotal == FirstKeywordMatch(total_patterns, t, 1)
        bySubtotal == FirstKeywordMatch(subtotal_patterns, t, 1)
        numbers == FindAll(DecimalRegex, t, 1)
    IN  IF byTotal # None THEN byTotal
        ELSE IF bySubtotal # None THEN bySubtotal
        ELSE IF numbers # <<>> THEN MaxByFloat(numbers)
        ELSE None

-----------------------------------------------------------------------------
(* The texts given to the extraction: every short text over a small        *)
(* alphabet, and shaped texts (a prefix, a date or amount of every shape   *)
(* within the bounds, a suffix).                                           *)

MaxDateLen == 4
MaxDayDigits == 3
MaxYearDigits == 5
MaxTotalLen == 4
MaxFracDigits == 3

\* a run of n digits
Digs(n) == [i \in 1..n |-> <<"1", "2", "0", "4", "7">>[((i - 1) % 5) + 1]]

ShortTexts(A, n) == UNION {[1..k -> A] : k \in 0..n}

DatePrefixes ==
    { <<>>, <<"x", " ">>, <<"MARCH", " ", "5", " ">>,
      <<"Invoice", " ", "May", " ", "1", "2", ",", " ", "2", "0", "2", "3", "\n">> }

DateSuffixes == { <<>>, <<" ", "due">>, <<" ", "december", " ", "7">> }

ShapedDates ==
    { pre \o Digs(s[1]) \o <<s[4][1]>> \o Digs(s[2]) \o <<s[4][2]>> \o Digs(s[3]) \o post :
        s \in (0..MaxDayDigits) \X (0..MaxDayDigits) \X (0..MaxYearDigits)
                \X {<<"/", "/">>, <<".", "/">>, <<"-", "-">>, <<"-", ".">>},
        pre \in DatePrefixes, post \in DateSuffixes }

DateTexts ==
    ShortTexts({"1", "/", " ", ",", "march", "MARCH"}, MaxDateLen)
        \cup ShapedDates
        \cup { <<"Invoice", " ", "x", " ">> \o <<"0", "3", "/", "1", "4", "/", "2", "0", "2", "4">>
                    \o <<" ", "due">>,
               <<"x", ":", " ", "March", " ", "5", ",", " ", "2", "0", "2", "3">> }

TotalKeywords ==
    { <<>>, <<"Total">>, <<"Sub", "total">>, <<"sub", " ", "total">>, <<"grand", " ", "total">>,
      <<"Amount", " ", "Due">>, <<"balance", "\n", "due">>, <<"invoice", " ", "total">>,
      <<"x", "total">>, <<"amount", "due">> }

TotalGaps ==
    { <<>>, <<":", " ", "$">>, <<" ", "Due", ":", " ", "$">>, <<" ", "$", "x", " ">> }

Amounts ==
    { int \o frac :
        int \in {<<>>, <<"1">>, <<"9">>, <<"1", "9">>},
        frac \in {<<>>} \cup {<<".">> \o Digs(f) : f \in 0..MaxFracDigits} }

TotalPrefixes ==
    { <<>>, <<"Sub", "total", ":", " ", "1", "0", ".", "0", "0", " ">>,
      <<"x", " ", "9", "9", ".", "9", "9", " ">> }

TotalSuffixes == { <<>>, <<" ", "x", " ", "5", ".", "0", "0">> }

ShapedTotals ==
    { pre \o kw \o gap \o amt \o post :
        pre \in TotalPrefixes, kw \in TotalKeywords, gap \in TotalGaps,
        amt \in Amounts, post \in TotalSuffixes }

TotalTexts ==
    ShortTexts({"total", "sub", " ", "$", "1", "."}, MaxTotalLen)
        \cup ShapedTotals
        \cup { <<"Sub", "total", ":", " ", "1", "0", ".", "0", "0", " ", "Total", " ", "Due",
                 ":", " ", "$", "4", "5", ".", "5", "0">>,
               <<"x", " ", "x", " ", "x">>,
               <<"x", " ", "1", "2", ".", "0", "0", " ", "x", " ", "9", "9", ".", "9", "9",
                 " ", "x", " ", "5", ".", "0", "0">>,
               <<"x", " ", "0", "1", ".", "0", "0", " ", "1", ".", "0", "0">>,
               <<"total", " ", "1", ",", "2", "3", "4", ".", "5", "6">>,
               <<"Total", ":", " ", "4", ",", "5">>,
               <<"x", " ", "1", ",", "2", "3", "4", ".", "5", "6">> }

-----------------------------------------------------------------------------
(* The store: data/invoices.json.  The content of the file is a sequence of *)
(* JSON tokens: the brackets and commas of an array, and one token for     *)
(* each object.                                                            *)

LBracket == [j |-> "["]
RBracket == [j |-> "]"]
Comma    == [j |-> ","]
Obj(v)   == [j |-> "{}", v |-> v]

\* the dict analyze_invoice appends to results
InvoiceRecord(filename, date, total, note) ==
    [filename |-> filename, date |-> date, total |-> total, note |-> note]

\* json.dump of a list with the first element already written
RECURSIVE DumpRest(_)
DumpRest(data) ==
    IF data = <<>> THEN <<RBracket>>
    ELSE <<Comma, Obj(Head(data))>> \o DumpRest(Tail(data))

\* json.dump(data, f, indent=4, ensure_ascii=False) of a list of dicts
JsonDump(data) ==
    IF data = <<>> THEN <<LBracket, RBracket>>
    ELSE <<LBracket, Obj(Head(data))>> \o DumpRest(Tail(data))

\* the elements of an array after its first: the list, or <<"error">>
RECURSIVE ParseRest(_, _, _)
ParseRest(c, pos, acc) ==
    IF pos > Len(c) THEN <<"error">>
    ELSE IF c[pos] = RBracket THEN (IF pos = Len(c) THEN <<"list", acc>> ELSE <<"error">>)
    ELSE IF c[pos] = Comma /\ pos + 1 <= Len(c) /\ c[pos + 1].j = "{}"
         THEN ParseRest(c, pos + 2, Append(acc, c[pos + 1].v))
    ELSE <<"error">>

\* json.load: <<"list", l>>, <<"dict", d>> or <<"error">> (the decoder raises)
JsonLoad(c) ==
    IF c = <<>> THEN <<"error">>
    ELSE IF c[1].j = "{}" THEN (IF Len(c) = 1 THEN <<"dict", c[1].v>> ELSE <<"error">>)
    ELSE IF c[1] # LBracket \/ Len(c) < 2 THEN <<"error">>
    ELSE IF c[2] = RBracket THEN (IF Len(c) = 2 THEN <<"list", <<>>>> ELSE <<"error">>)
    ELSE IF c[2].j = "{}" THEN ParseRest(c, 3, <<c[2].v>>)
    ELSE <<"error">>

\* load_saved_data: the value returned, or <<"raise">> when open() raises
load_saved_data(f, e) ==
    IF ~f.exists THEN <<"list", <<>>>>
    ELSE IF ~e.readable THEN <<"raise">>
    ELSE LET v == JsonLoad(f.content)
         IN  IF v[1] = "error" THEN <<"list", <<>>>> ELSE v

\* data.extend(new_entries) with the entries put before the data
ExtendedInFront(data, new_entries) == new_entries \o data

\* data.extend(new_entries) that keeps only the entries
ExtendedDropsData(data, new_entries) == new_entries

\* data.extend(new_entries), data a list
Extended(data, new_entries) == data \o new_entries

\* open(DATA_FILE, "w"): the file is created or emptied
Truncated(f) == [exists |-> TRUE, content |-> <<>>]

\* save_invoice_data run alone: <<"returned", the file after>> or <<"raised", the
\* file after>>
save_invoice_data(f, e, new_entries) ==
    LET data == load_saved_data(f, e)
    IN  IF data[1] # "list" THEN <<"raised", f>>
        ELSE IF ~e.writable THEN <<"raised", f>>
        ELSE <<"returned",
               [exists |-> TRUE, content |-> JsonDump(Extended(data[2], new_entries))]>>

-----------------------------------------------------------------------------
(* The values of the variables a specification does not use. *)

NoImage == [decodable |-> FALSE, pixel |-> <<0, 0, 0>>, num |-> 1, den |-> 1,
            brightness |-> 0, blur |-> 0]

NoFile == [exists |-> FALSE, content |-> <<>>]

NoEnv == [readable |-> TRUE, writable |-> TRUE, serialized |-> TRUE]

NoHist == [initial |-> <<>>, appended |-> <<>>, calls |-> 0, valid |-> TRUE, overlap |-> FALSE]

NoReq == [pc |-> "none"]

StoreIdle ==
    /\ file = NoFile /\ env = NoEnv /\ call = <<>> /\ hist = NoHist /\ got = Unset

PreprocessIdle == img = NoImage /\ stage = <<>>

ExtractionIdle == text = <<>> /\ dateOut = Unset /\ totalOut = Unset

-----------------------------------------------------------------------------
(* The store specification: callers run save_invoice_data line by line,    *)
(* one after the other when the run is serialized and interleaved when it  *)
(* is not, and GET /invoices reads the store.                              *)

MaxCalls == 3
MaxNew == 1

Callers == {1, 2}

\* the i-th record of the n-th call (the code never looks into a record, so the
\* records of a run are told apart by the call they came with); call 0: the
\* record the store held before
StoreRecord(n, i) ==
    InvoiceRecord(<<"invoice", n, i>>, <<"1", "/", "2", "/", "2", "4">>, <<"4", "5", ".", "5", "0">>,
                  <<"x">>)

RecB == StoreRecord(0, 1)

\* the list of k records the n-th call is made with
NewList(n, k) == [i \in 1..k |-> StoreRecord(n, i)]

\* what the file may hold at the start: nothing (no file), an array, an empty
\* file, a cut-off array, a lone object
InitialFiles ==
    { [exists |-> FALSE, content |-> <<>>],
      [exists |-> TRUE, content |-> <<>>],
      [exists |-> TRUE, content |-> JsonDump(<<>>)],
      [exists |-> TRUE, content |-> JsonDump(<<RecB>>)],
      [exists |-> TRUE, content |-> <<LBracket, Obj(RecB), Comma>>],
      [exists |-> TRUE, content |-> <<Obj(RecB)>>] }

IsArrayFile(f) == f.exists /\ JsonLoad(f.content)[1] = "list"

Idle == [pc |-> "idle", new_entries |-> <<>>, data |-> <<"none">>]

InFlight(p) == call[p].pc \in {"called", "loaded", "extended", "opened"}

InitStore ==
    /\ file \in InitialFiles
    /\ env \in [readable : BOOLEAN, writable : BOOLEAN, serialized : BOOLEAN]
    /\ call = [p \in Callers |-> Idle]
    /\ hist = [initial |-> IF IsArrayFile(file) THEN JsonLoad(file.content)[2] ELSE <<>>,
               appended |-> <<>>, calls |-> 0, valid |-> IsArrayFile(file),
               overlap |-> FALSE]
    /\ got = Unset
    /\ ExtractionIdle /\ PreprocessIdle /\ req = NoReq

\* a request reaches save_invoice_data(new_entries), with k records
SaveCall(p, k) ==
    /\ ~InFlight(p)
    /\ hist.calls < MaxCalls
    /\ env.serialized => \A q \in Callers : ~InFlight(q)
    /\ call' = [call EXCEPT ![p] = [pc |-> "called", new_entries |-> NewList(hist.calls + 1, k),
                                    data |-> <<"none">>]]
    /\ hist' = [hist EXCEPT !.calls = @ + 1]
    /\ UNCHANGED <<file, env, got, text, dateOut, totalOut, img, stage, req>>

\* data = load_saved_data()
SaveLoad(p) ==
    /\ call[p].pc = "called"
    /\ LET data == load_saved_data(file, env) IN
        call' = [call EXCEPT ![p].pc = IF data[1] = "raise" THEN "raised" ELSE "loaded",
                             ![p].data = IF data[1] = "raise" THEN <<"none">> ELSE data]
    /\ hist' = [hist EXCEPT !.overlap =
                    @ \/ \E q \in Callers \ {p} : call[q].pc \in {"loaded", "extended"}]
    /\ UNCHANGED <<file, env, got, text, dateOut, totalOut, img, stage, req>>

\* data.extend(new_entries): a dict has no extend
SaveExtend(p) ==
    /\ call[p].pc = "loaded"
    /\ call' = [call EXCEPT ![p] =
                    IF call[p].data[1] = "list"
                    THEN [@ EXCEPT !.pc = "extended",
                                   !.data = <<"list", Extended(call[p].data[2], call[p].new_entries)>>]
                    ELSE [@ EXCEPT !.pc = "raised", !.data = <<"none">>]]
    /\ UNCHANGED <<file, env, hist, got, text, dateOut, totalOut, img, stage, req>>

\* with open(DATA_FILE, "w", encoding="utf-8") as f
SaveOpen(p) ==
    /\ call[p].pc = "extended"
    /\ IF env.writable
       THEN file' = Truncated(file) /\ call' = [call EXCEPT ![p].pc = "opened"]
       ELSE file' = file /\ call' = [call EXCEPT ![p].pc = "raised", ![p].data = <<"none">>]
    /\ UNCHANGED <<env, hist, got, text, dateOut, totalOut, img, stage, req>>

\* json.dump(data, f, indent=4, ensure_ascii=False), and the return
SaveDump(p) ==
    /\ call[p].pc = "opened"
    /\ file' = [exists |-> TRUE, content |-> JsonDump(call[p].data[2])]
    /\ call' = [call EXCEPT ![p].pc = "returned", ![p].data = <<"none">>]
    /\ hist' = [hist EXCEPT !.appended = @ \o call[p].new_entries]
    /\ UNCHANGED <<env, got, text, dateOut, totalOut, img, stage, req>>

\* GET /invoices: jsonify(load_saved_data()); got keeps what kind of value the
\* handler had from load_saved_data, or that the call raised
GetInvoices ==
    /\ got' = <<load_saved_data(file, env)[1]>>
    /\ UNCHANGED <<file, env, call, hist, text, dateOut, totalOut, img, stage, req>>

NextStore ==
    \/ \E p \in Callers, k \in 0..MaxNew : SaveCall(p, k)
    \/ \E p \in Callers : SaveLoad(p)
    \/ \E p \in Callers : SaveExtend(p)
    \/ \E p \in Callers : SaveOpen(p)
    \/ \E p \in Callers : SaveDump(p)
    \/ GetInvoices

SpecStore == InitStore /\ [][NextStore]_vars

\* how often r occurs in the list l
Count(r, l) == Cardinality({i \in 1..Len(l) : l[i] = r})

Settled == \A p \in Callers : ~InFlight(p)

\* C1: from a store that holds a JSON array, after any calls of save_invoice_data
\* made one after the other, load_saved_data returns the initial records followed
\* by the lists of the calls that returned, in their order: nothing lost, nothing
\* twice, nothing out of order.
C1_SequentialAppendsKeepOrder ==
    (env.serialized /\ env.readable /\ hist.valid /\ Settled) =>
        load_saved_data(file, env) = <<"list", hist.initial \o hist.appended>>

\* three calls made one after the other have returned, on a store that held a record
C1_Witness ==
    /\ env.serialized /\ hist.valid /\ Settled
    /\ hist.initial # <<>> /\ hist.calls = 3 /\ Len(hist.appended) = 3
    /\ hist.appended[1] # hist.appended[2]
    /\ load_saved_data(file, env) = <<"list", hist.initial \o hist.appended>>

\* C7: load_saved_data never fails and always returns a list, whatever the state
\* of the store file, so that GET /invoices and a following save_invoice_data
\* fail only when the file cannot be written.
C7_LoadNeverFails ==
    /\ got # Unset => got = <<"list">>
    /\ \A p \in Callers : call[p].pc = "raised" => ~env.writable

\* no record that was in the store or that a returned call appended is missing
NothingLost ==
    LET v == load_saved_data(file, env)
        saved == hist.initial \o hist.appended
    IN  /\ v[1] = "list"
        /\ \A i \in 1..Len(saved) : Count(saved[i], v[2]) >= Count(saved[i], saved)

\* C8: when each call of save_invoice_data runs its load, extend and rewrite under
\* mutual exclusion, the store lacks no record once both callers have returned.
\* Calls that are not serialized reach the state C8_Witness.
C8_SerializedCallsLoseNothing ==
    (env.serialized /\ \A p \in Callers : call[p].pc = "returned") => NothingLost

\* not serialized: both callers loaded before either rewrote, both returned without
\* error, and the store lacks a record
C8_Witness ==
    /\ ~env.serialized /\ hist.overlap /\ hist.calls = 2
    /\ \A p \in Callers : call[p].pc = "returned" /\ call[p].new_entries # <<>>
    /\ load_saved_data(file, env)[1] = "list"
    /\ ~NothingLost

-----------------------------------------------------------------------------
(* POST /analyze: the loop over the uploaded images, then the save and the *)
(* response.  An image is what the handler meets on it: a fault (saving    *)
(* the upload raises, cv2.imread returns None, the OCR raises) or none,    *)
(* and the text the OCR reads.                                             *)

MaxBatch == 3

TextBoth == <<" ", "1", "/", "2", "/", "2", "4", "\n", "Total", ":", " ", "$", "4", "5", ".", "5", "0", "\n">>
TextDotted == <<"1", ".", "2", ".", "2", "4">>
TextDateOnly == <<"March", " ", "5">>

Images ==
    { [filename |-> "both.png", fault |-> "none", text |-> TextBoth],
      [filename |-> "dotted.png", fault |-> "none", text |-> TextDotted],
      [filename |-> "date.png", fault |-> "none", text |-> TextDateOnly],
      [filename |-> "bad.png", fault |-> "decode", text |-> <<>>],
      [filename |-> "ocr.png", fault |-> "ocr", text |-> TextBoth],
      [filename |-> "upload.png", fault |-> "save", text |-> TextBoth] }

Batches == UNION {[1..k -> Images] : k \in 0..MaxBatch}

AnalyzeFiles ==
    { [exists |-> FALSE, content |-> <<>>],
      [exists |-> TRUE, content |-> JsonDump(<<RecB>>)],
      [exists |-> TRUE, content |-> <<LBracket, Obj(RecB), Comma>>] }

\* str.strip
RECURSIVE Strip(_)
Strip(t) ==
    IF t = <<>> THEN t
    ELSE IF t[1] \in Blanks THEN Strip(Tail(t))
    ELSE IF t[Len(t)] \in Blanks THEN Strip(SubSeq(t, 1, Len(t) - 1))
    ELSE t

\* the truth value of a str or None
Truthy(x) == x # None /\ x # <<>>

\* the test with either field enough
QualifiesWithEither(date, total) == Truthy(date) \/ Truthy(total)

\* if date and total
Qualifies(date, total) == Truthy(date) /\ Truthy(total)

Init ==
    /\ file \in AnalyzeFiles
    /\ env \in [readable : {TRUE}, writable : BOOLEAN, serialized : {TRUE}]
    /\ req \in {[pc |-> "loop", images |-> b, idx |-> 1, results |-> <<>>,
                 response |-> <<>>, file0 |-> file, saved |-> FALSE] : b \in Batches}
    /\ call = <<>> /\ hist = NoHist /\ got = Unset
    /\ ExtractionIdle /\ PreprocessIdle

\* one pass of "for img in images": the upload is saved, preprocessed, read and
\* parsed; an exception leaves the handler (the finally clause only removes the
\* temporary file)
AnalyzeImage ==
    /\ req.pc = "loop"
    /\ req.idx <= Len(req.images)
    /\ LET image == req.images[req.idx]
           date == extract_date(image.text)
           total == extract_total(image.text)
       IN  req' =
            CASE image.fault \in {"save", "ocr"} -> [req EXCEPT !.pc = "raised"]
              [] image.fault = "decode" -> [req EXCEPT !.idx = @ + 1]
              [] OTHER ->
                    IF Qualifies(date, total)
                    THEN [req EXCEPT !.idx = @ + 1,
                            !.results = Append(@,
                                InvoiceRecord(image.filename, date, total, Strip(image.text)))]
                    ELSE [req EXCEPT !.idx = @ + 1]
    /\ UNCHANGED <<file, env, call, hist, got, text, dateOut, totalOut, img, stage>>

\* after the loop: "if results: save_invoice_data(results)", "return jsonify(results)"
AnalyzeRespond ==
    /\ req.pc = "loop"
    /\ req.idx > Len(req.images)
    /\ IF req.results # <<>>
       THEN LET saved == save_invoice_data(file, env, req.results) IN
            /\ file' = saved[2]
            /\ req' = IF saved[1] = "returned"
                      THEN [req EXCEPT !.pc = "responded", !.response = req.results,
                                       !.saved = TRUE]
                      ELSE [req EXCEPT !.pc = "save raised", !.saved = TRUE]
       ELSE /\ file' = file
            /\ req' = [req EXCEPT !.pc = "responded", !.response = req.results]
    /\ UNCHANGED <<env, call, hist, got, text, dateOut, totalOut, img, stage>>

Next == AnalyzeImage \/ AnalyzeRespond

Spec == Init /\ [][Next]_vars

\* the record made of an image
RecordOf(image) ==
    InvoiceRecord(image.filename, extract_date(image.text), extract_total(image.text),
                  Strip(image.text))

\* the images of the batch, in input order, that are in `sound` and for which both
\* extract_date and extract_total found a value
RECURSIVE QualifyingRecords(_, _)
QualifyingRecords(images, sound) ==
    IF images = <<>> THEN <<>>
    ELSE LET image == Head(images)
             rest == QualifyingRecords(Tail(images), sound)
         IN  IF /\ image.fault \in sound
                /\ extract_date(image.text) # None
                /\ extract_total(image.text) # None
             THEN <<RecordOf(image)>> \o rest ELSE rest

StoredRecords(f) == load_saved_data(f, env)[2]

\* C2: the list /analyze returns is, in input order, the records of the images
\* for which both fields were found; that list is what is appended to the store;
\* and when no image qualifies the response is empty and the store is untouched,
\* save_invoice_data not being called.
C2_ReturnsAndPersistsQualifying ==
    req.pc = "responded" =>
        /\ req.response = QualifyingRecords(req.images, {"none"})
        /\ StoredRecords(file) = StoredRecords(req.file0) \o req.response
        /\ req.response = <<>> => (file = req.file0 /\ ~req.saved)

\* a batch of three, the second undecodable and the third without a total: the
\* first record alone is returned and appended to the record the store held
C2_Witness ==
    /\ req.pc = "responded"
    /\ Len(req.images) = 3 /\ Len(req.response) = 1
    /\ req.images[2].fault = "decode"
    /\ req.response[1].filename = req.images[1].filename
    /\ StoredRecords(req.file0) # <<>>
    /\ StoredRecords(file) = StoredRecords(req.file0) \o req.response

\* C3: no failure on one image (saving the upload, decoding, OCR, extraction)
\* aborts the batch: every image is gone through, and the response holds the
\* records of the qualifying images among those that did not fail.
C3_NoItemFailureAbortsBatch ==
    req.pc # "loop" =>
        /\ req.idx = Len(req.images) + 1
        /\ req.pc = "responded" =>
                req.response = QualifyingRecords(req.images, {"none"})

-----------------------------------------------------------------------------
(* preprocess_image up to the denoising pass, on an image of one pixel     *)
(* with the channels B, G, R (a Gaussian blur leaves such an image as it   *)
(* is).  The contrast is the fraction num / den.                           *)

MaxPixel == 255

Abs(x) == IF x < 0 THEN 0 - x ELSE x

\* the integer nearest to n / d (d > 0, n >= 0), the even one of two equally near
RoundHalfEven(n, d) ==
    LET q == n \div d
        r == n % d
    IN  IF 2 * r < d THEN q
        ELSE IF 2 * r > d THEN q + 1
        ELSE IF q % 2 = 0 THEN q ELSE q + 1

\* one channel of cv2.convertScaleAbs(image, alpha=num/den, beta=brightness):
\* |p * alpha + beta|, rounded, saturated to 8 bits
ConvertScaleAbs(p, num, den, brightness) ==
    Min2(RoundHalfEven(Abs(p * num + brightness * den), den), MaxPixel)

\* cv2.cvtColor(adjusted, cv2.COLOR_BGR2GRAY) of 8-bit channels
BgrToGray(px) == (px[1] * 1868 + px[2] * 9617 + px[3] * 4899 + 8192) \div 16384

Pixels == { <<0, 0, 0>>, <<10, 100, 200>>, <<1, 3, 5>>, <<255, 255, 255>> }

Contrasts == { <<1, 2>>, <<1, 1>>, <<3, 2>>, <<2, 1>>, <<5, 2>> }

Brightnesses == { 0 - 300, 0 - 50, 0 - 1, 0, 1, 50, 300 }

Blurs == { 0, 1, 2 }

InitPreprocess ==
    /\ img \in { [decodable |-> d, pixel |-> px, num |-> c[1], den |-> c[2],
                  brightness |-> b, blur |-> r] :
                    d \in BOOLEAN, px \in Pixels, c \in Contrasts,
                    b \in Brightnesses, r \in Blurs }
    /\ stage = <<>>
    /\ ExtractionIdle /\ StoreIdle /\ req = NoReq

Last(q) == q[Len(q)]

\* image = cv2.imread(image_path); if image is None: return None
Imread ==
    /\ stage = <<>>
    /\ stage' = IF img.decodable THEN <<[name |-> "imread", out |-> img.pixel]>>
                ELSE <<[name |-> "return None", out |-> <<>>]>>
    /\ UNCHANGED <<img, text, dateOut, totalOut, file, env, call, hist, got, req>>

\* adjusted = cv2.convertScaleAbs(image, alpha=contrast, beta=brightness)
ScaleAndOffset ==
    /\ stage # <<>> /\ Last(stage).name = "imread"
    /\ stage' = Append(stage,
            [name |-> "convertScaleAbs",
             out |-> [c \in 1..3 |->
                        ConvertScaleAbs(Last(stage).out[c], img.num, img.den, img.brightness)]])
    /\ UNCHANGED <<img, text, dateOut, totalOut, file, env, call, hist, got, req>>

\* if blur > 0: adjusted = cv2.GaussianBlur(adjusted, (ksize, ksize), 0)
UserBlur ==
    /\ stage # <<>> /\ Last(stage).name = "convertScaleAbs"
    /\ img.blur > 0
    /\ stage' = Append(stage,
            [name |-> "GaussianBlur", out |-> Last(stage).out, ksize |-> img.blur * 2 + 1])
    /\ UNCHANGED <<img, text, dateOut, totalOut, file, env, call, hist, got, req>>

\* gray = cv2.cvtColor(adjusted, cv2.COLOR_BGR2GRAY)
ToGray ==
    /\ stage # <<>>
    /\ \/ Last(stage).name = "convertScaleAbs" /\ img.blur <= 0
       \/ Last(stage).name = "GaussianBlur"
    /\ stage' = Append(stage, [name |-> "cvtColor", out |-> <<BgrToGray(Last(stage).out)>>])
    /\ UNCHANGED <<img, text, dateOut, totalOut, file, env, call, hist, got, req>>

\* denoised = cv2.GaussianBlur(gray, (5, 5), 0)
Denoise ==
    /\ stage # <<>> /\ Last(stage).name = "cvtColor"
    /\ stage' = Append(stage, [name |-> "denoise", out |-> Last(stage).out, ksize |-> 5])
    /\ UNCHANGED <<img, text, dateOut, totalOut, file, env, call, hist, got, req>>

NextPreprocess == Imread \/ ScaleAndOffset \/ UserBlur \/ ToGray \/ Denoise

SpecPreprocess == InitPreprocess /\ [][NextPreprocess]_vars

Clamp(x, lo, hi) == IF x < lo THEN lo ELSE IF x > hi THEN hi ELSE x

\* p * num / den + brightness, to the nearest integer
ScaledAndOffset(p, num, den, brightness) ==
    LET n == p * num + brightness * den
    IN  IF n >= 0 THEN RoundHalfEven(n, den) ELSE 0 - RoundHalfEven(0 - n, den)

\* C10: stage 1 maps every pixel value p to clamp(p * contrast + brightness, 0,
\* 255), a result below 0 becoming 0 and one above 255 becoming 255, and it runs
\* before the blur and the grayscale conversion.
C10_ScaleAndOffsetClamps ==
    Len(stage) >= 2 =>
        /\ stage[2].name = "convertScaleAbs"
        /\ \A c \in 1..3 :
            stage[2].out[c] =
                Clamp(ScaledAndOffset(img.pixel[c], img.num, img.den, img.brightness),
                      0, MaxPixel)

-----------------------------------------------------------------------------
(* The extraction specifications: one call of extract_date, or of          *)
(* extract_total, on a text.                                               *)

InitDate ==
    /\ text \in DateTexts
    /\ dateOut = Unset /\ totalOut = Unset
    /\ PreprocessIdle /\ StoreIdle /\ req = NoReq

InitTotal ==
    /\ text \in TotalTexts
    /\ dateOut = Unset /\ totalOut = Unset
    /\ PreprocessIdle /\ StoreIdle /\ req = NoReq

ExtractDate ==
    /\ dateOut = Unset
    /\ dateOut' = extract_date(text)
    /\ UNCHANGED <<text, totalOut, img, stage, file, env, call, hist, got, req>>

ExtractTotal ==
    /\ totalOut = Unset
    /\ totalOut' = extract_total(text)
    /\ UNCHANGED <<text, dateOut, img, stage, file, env, call, hist, got, req>>

NextDate == ExtractDate

NextTotal == ExtractTotal

SpecDate == InitDate /\ [][NextDate]_vars

SpecTotal == InitTotal /\ [][NextTotal]_vars

-----------------------------------------------------------------------------
(* What the extraction is to return, stated on the text itself.            *)

Minimum(S) == CHOOSE x \in S : \A y \in S : x <= y

Maximum(S) == CHOOSE x \in S : \A y \in S : x >= y

AllIn(t, from, to, S) == \A i \in from..to : i <= Len(t) /\ t[i] \in S

\* the length of the longest run of tokens of S that starts at place i
RunFrom(t, i, S) ==
    Maximum({n \in 0..Len(t) : AllIn(t, i, i + n - 1, S)})

\* a digits, a separator, b digits, a separator, c digits, from place s on
NumericShapeAt(t, s, a, b, c) ==
    /\ s + a + b + c + 1 <= Len(t)
    /\ AllIn(t, s, s + a - 1, Digits)
    /\ t[s + a] \in DateSeps
    /\ AllIn(t, s + a + 1, s + a + b, Digits)
    /\ t[s + a + b + 1] \in DateSeps
    /\ AllIn(t, s + a + b + 2, s + a + b + c + 1, Digits)

NumericShapes(t) ==
    {x \in {s \in 1..Len(t) : t[s] \in Digits} \X (1..2) \X (1..2) \X (2..4) :
        NumericShapeAt(t, x[1], x[2], x[3], x[4])}

\* the first numeric date from the left, with the longest year it can take
FirstNumericDate(t) ==
    LET all == NumericShapes(t)
        s == Minimum({x[1] : x \in all})
        x == CHOOSE y \in all : y[1] = s /\ \A z \in all : z[1] = s => z[4] <= y[4]
    IN  SubSeq(t, s, s + x[2] + x[3] + x[4] + 1)

\* a month name at place s, w blanks, d digits; then, with y >= 0, a comma, y
\* blanks and four digits
MonthShapeAt(t, s, w, d, y) ==
    /\ LowerTok(t[s]) \in MonthNames
    /\ w >= 1 /\ AllIn(t, s + 1, s + w, Blanks)
    /\ AllIn(t, s + w + 1, s + w + d, Digits)
    /\ y >= 0 =>
        /\ s + w + d + 1 <= Len(t) /\ t[s + w + d + 1] = ","
        /\ AllIn(t, s + w + d + 2, s + w + d + y + 1, Blanks)
        /\ AllIn(t, s + w + d + y + 2, s + w + d + y + 5, Digits)

MonthShapes(t) ==
    UNION { {x \in {s} \X (1..(Len(t) - s)) \X (1..2) \X ((0 - 1)..(Len(t) - s)) :
                MonthShapeAt(t, x[1], x[2], x[3], x[4])} :
            s \in {i \in 1..Len(t) : LowerTok(t[i]) \in MonthNames} }

MonthShapeLen(x) == 1 + x[2] + x[3] + (IF x[4] >= 0 THEN x[4] + 5 ELSE 0)

\* the first month-name date from the left, the longest there, its month capitalised
FirstMonthDate(t) ==
    LET all == MonthShapes(t)
        s == Minimum({x[1] : x \in all})
        n == Maximum({MonthShapeLen(x) : x \in {y \in all : y[1] = s}})
    IN  <<CapOf[LowerTok(t[s])]>> \o SubSeq(t, s + 1, s + n - 1)

DateByTiers(t) ==
    IF \E x \in NumericShapes(t) : TRUE THEN FirstNumericDate(t)
    ELSE IF \E x \in MonthShapes(t) : TRUE THEN FirstMonthDate(t)
    ELSE None

\* C5: extract_date returns the first numeric date of the text if there is one
\* (also when a month-name date stands elsewhere in the text), else the first
\* month-name date with its month capitalised, else nothing.
C5_DateTiersInOrder ==
    dateOut # Unset => dateOut = DateByTiers(text)

\* a month-name date stands before the numeric date, and the numeric date is returned
C5_Witness ==
    /\ dateOut # Unset /\ dateOut # None
    /\ NumericShapes(text) # {} /\ MonthShapes(text) # {}
    /\ Minimum({x[1] : x \in MonthShapes(text)}) < Minimum({x[1] : x \in NumericShapes(text)})
    /\ dateOut[1] \in Digits

\* 1-2 digits, a separator, 1-2 digits, the same separator, 2 or 4 digits
ConformsNumeric(d) ==
    \E a \in 1..2, b \in 1..2, c \in {2, 4} :
        /\ Len(d) = a + b + c + 2
        /\ NumericShapeAt(d, 1, a, b, c)
        /\ d[a + 1] = d[a + b + 2]

\* C6: a date returned by the numeric tier has 1-2 digits, a separator, 1-2
\* digits, the same separator again, and a year of exactly 2 or exactly 4 digits.
C6_NumericDateConforms ==
    (dateOut # Unset /\ dateOut # None /\ dateOut[1] \in Digits) => ConformsNumeric(dateOut)

-----------------------------------------------------------------------------

\* the keywords of tier 1 in their priority, and of tier 2; joined: the two
\* words written as one
TotalKeywordsByPriority ==
    << [w |-> <<"total">>, joined |-> FALSE],
       [w |-> <<"grand", "total">>, joined |-> FALSE],
       [w |-> <<"amount", "due">>, joined |-> FALSE],
       [w |-> <<"balance", "due">>, joined |-> FALSE],
       [w |-> <<"invoice", "total">>, joined |-> FALSE] >>

SubtotalKeywords ==
    << [w |-> <<"sub", "total">>, joined |-> TRUE],
       [w |-> <<"sub", "total">>, joined |-> FALSE] >>

\* the place after keyword kw, if it starts at place i
KeywordEnd(t, kw, i) ==
    IF Len(kw.w) = 1 THEN i + 1
    ELSE IF kw.joined THEN i + 2
    ELSE i + RunFrom(t, i + 1, Blanks) + 2

\* keyword kw stands at place i as whole words
OccursAt(t, kw, i) ==
    LET j == KeywordEnd(t, kw, i) IN
    /\ t[i] = kw.w[1]
    /\ i = 1 \/ ~IsWordTok(t[i - 1])
    /\ j - 1 <= Len(t) /\ t[j - 1] = kw.w[Len(kw.w)]
    /\ (Len(kw.w) = 2 /\ ~kw.joined) => j - 1 > i + 1
    /\ j > Len(t) \/ ~IsWordTok(t[j])

\* where the number after place j starts: the first digit or "$" from j on; after
\* a "$", blanks may come before the digit.  0: no number
NumberStartAfter(t, j) ==
    LET P == {q \in j..Len(t) : t[q] \in Digits \cup {"$"}}
        q == Minimum(P)
        r == q + 1 + RunFrom(t, q + 1, Blanks)
    IN  IF P = {} THEN 0
        ELSE IF t[q] \in Digits THEN q
        ELSE IF r <= Len(t) /\ t[r] \in Digits THEN r
        ELSE 0

\* the number at place s: its digits, and a period with two digits if they follow
AmountAt(t, s) ==
    LET e == s + RunFrom(t, s, Digits) IN
    IF e + 2 <= Len(t) /\ t[e] = "." /\ t[e + 1] \in Digits /\ t[e + 2] \in Digits
    THEN SubSeq(t, s, e + 2) ELSE SubSeq(t, s, e - 1)

\* the number after the first occurrence of kw that has one
KeywordAmount(t, kw) ==
    LET occ == {i \in 1..Len(t) :
                    OccursAt(t, kw, i) /\ NumberStartAfter(t, KeywordEnd(t, kw, i)) # 0}
    IN  IF occ = {} THEN None
        ELSE AmountAt(t, NumberStartAfter(t, KeywordEnd(t, kw, Minimum(occ))))

\* the number of the first keyword, in the order of kws, that has one
TierAmount(t, kws) ==
    LET hits == {i \in 1..Len(kws) : KeywordAmount(t, kws[i]) # None}
    IN  IF hits = {} THEN None ELSE KeywordAmount(t, kws[Minimum(hits)])

\* the places where digits, a period and two digits start
DecimalStarts(t) ==
    {s \in 1..Len(t) :
        /\ t[s] \in Digits
        /\ LET e == s + RunFrom(t, s, Digits) IN
            e + 2 <= Len(t) /\ t[e] = "." /\ t[e + 1] \in Digits /\ t[e + 2] \in Digits}

\* the digits.DD numbers of the text, read from the left, none overlapping another
RECURSIVE DecimalsFrom(_, _)
DecimalsFrom(t, from) ==
    LET S == {s \in DecimalStarts(t) : s >= from}
        s == Minimum(S)
        e == s + RunFrom(t, s, Digits) + 3
    IN  IF S = {} THEN <<>> ELSE <<SubSeq(t, s, e - 1)>> \o DecimalsFrom(t, e)

\* the value of digits.DD in hundredths
RECURSIVE CentsOf(_)
CentsOf(x) ==
    IF x = <<>> THEN 0
    ELSE IF x[Len(x)] = "." THEN CentsOf(SubSeq(x, 1, Len(x) - 1))
    ELSE 10 * CentsOf(SubSeq(x, 1, Len(x) - 1)) + DigitVal(x[Len(x)])

NormalisedText == CommaToPeriod(LowerText(text))

\* C4: extract_total returns the number of the first total keyword (in the fixed
\* priority) that has one; only without any, the number of the subtotal tier;
\* only without any, a greatest of the digits.DD numbers; and nothing only if
\* there is none of these.
C4_FirstSuccessfulTierWins ==
    totalOut # Unset =>
        LET t == NormalisedText
            k1 == TierAmount(t, TotalKeywordsByPriority)
            k2 == TierAmount(t, SubtotalKeywords)
            ds == DecimalsFrom(t, 1)
        IN  IF k1 # None THEN totalOut = k1
            ELSE IF k2 # None THEN totalOut = k2
            ELSE IF ds # <<>> THEN
                /\ \E i \in 1..Len(ds) : totalOut = ds[i]
                /\ \A i \in 1..Len(ds) : CentsOf(ds[i]) <= CentsOf(totalOut)
            ELSE totalOut = None

\* a total keyword wins over a subtotal before it and over a larger number
C4_Witness ==
    /\ totalOut # Unset /\ totalOut # None
    /\ LET t == NormalisedText
           k1 == TierAmount(t, TotalKeywordsByPriority)
           k2 == TierAmount(t, SubtotalKeywords)
           ds == DecimalsFrom(t, 1)
       IN  /\ k1 # None /\ k2 # None /\ k1 # k2 /\ totalOut = k1
           /\ \E i \in 1..Len(ds) : CentsOf(ds[i]) > CentsOf(k1)

IsDigitsDotDD(x) ==
    /\ Len(x) >= 4
    /\ AllIn(x, 1, Len(x) - 3, Digits)
    /\ x[Len(x) - 2] = "."
    /\ AllIn(x, Len(x) - 1, Len(x), Digits)

IsDigitsOnly(x) == Len(x) >= 1 /\ AllIn(x, 1, Len(x), Digits)

\* C9 as stated: every value extract_total returns is digits, a period and
\* exactly two digits, whichever tier gave it.
C9_TotalIsDigitsDotDD ==
    (totalOut # Unset /\ totalOut # None) => IsDigitsDotDD(totalOut)

\* C9 amended: every value extract_total returns is digits, with or without a
\* period and exactly two digits after them; a value of the maximum fallback
\* always has the period and the two digits.
C9_TotalIsDigitsWithOptionalDD ==
    (totalOut # Unset /\ totalOut # None) =>
        /\ IsDigitsOnly(totalOut) \/ IsDigitsDotDD(totalOut)
        /\ (/\ TierAmount(NormalisedText, TotalKeywordsByPriority) = None
            /\ TierAmount(NormalisedText, SubtotalKeywords) = None)
                => IsDigitsDotDD(totalOut)

\* a keyword tier returned digits without a fraction although a period follows them
C9_Witness ==
    /\ totalOut # Unset /\ totalOut # None
    /\ IsDigitsOnly(totalOut)
    /\ TierAmount(NormalisedText, TotalKeywordsByPriority) = totalOut
    /\ \E i \in 1..Len(text) : text[i] = "."

=============================================================================
